---- MODULE Spec2Model ----
(***************************************************************************)
(* Model of the ingestion pipeline of the retail analytics service:        *)
(* POST /api/ingest (src/src/main.py), DuckDB.process_validation           *)
(* (src/src/db.py) and data_validate (src/src/validation.py) over the three *)
(* tables duck_store_staging, validation_errors and duck_store.             *)
(*                                                                         *)
(* The handler is "async def" and, after "await file.read()", runs without  *)
(* another await on the one shared connection "db", so the database steps   *)
(* of one request never interleave with those of another: one request is    *)
(* one action.  Every conn.execute is its own committed statement           *)
(* (autocommit), so a request that raises keeps what its earlier statements *)
(* wrote.                                                                   *)
(*                                                                         *)
(* Columns: id, hash, description (one of the required text columns),      *)
(* quantity, total_sales, rrp, and the derived sale_price and margin.  The  *)
(* other text columns and date_of_sale carry the same "required" rule as    *)
(* description and are always present in the rows drawn here.               *)
(***************************************************************************)
EXTENDS Integers, Sequences, FiniteSets, TLC

\* ---------------------------------------------------------------- bounds
MaxStaged == 3     \* rows ever staged
MaxBatch == 2      \* rows of one uploaded file
MaxFaults == 1     \* store faults injected in one behaviour

\* ---------------------------------------------------------------- values
NULL == "NULL"

\* The field values of the uploaded rows.
Contents ==
    { [description |-> "soap", quantity |-> 10, total_sales |-> 100, rrp |-> 8],
      [description |-> "soap", quantity |-> 4,  total_sales |-> 90,  rrp |-> 25],
      [description |-> "soap", quantity |-> 0,  total_sales |-> 100, rrp |-> 8],
      [description |-> NULL,   quantity |-> 10, total_sales |-> 100, rrp |-> 8],
      [description |-> NULL,   quantity |-> -1, total_sales |-> 100, rrp |-> 8] }

\* The files of at most "room" rows.
BatchesOf(room) ==
    UNION { [1..n -> Contents] :
                n \in 1..(IF room < MaxBatch THEN room ELSE MaxBatch) }

Batches == BatchesOf(MaxBatch)

\* Where a store fault may hit a request after its staging write.
Faults == {"none", "validation", "persist", "promotion"}

\* ------------------------------------------------------------ arithmetic
\* DOUBLE values are exact fractions n/d in lowest terms with d > 0; "def"
\* is FALSE for the result of a division by zero (NULL, or inf/NaN when
\* DuckDB runs with ieee_floating_point_ops).
Abs(x) == IF x < 0 THEN -x ELSE x

RECURSIVE Gcd(_, _)
Gcd(a, b) == IF b = 0 THEN a ELSE Gcd(b, a % b)

Undefined == [def |-> FALSE, n |-> 0, d |-> 1]

Frac(n, d) ==
    LET g == Gcd(Abs(n), Abs(d))
        s == IF d < 0 THEN -1 ELSE 1
    IN  [def |-> TRUE, n |-> (s * n) \div g, d |-> (s * d) \div g]

\* total_sales/quantity
Divide(a, b) == IF b = 0 THEN Undefined ELSE Frac(a, b)

\* x - r for a fraction x and an integer r
Minus(x, r) == IF x.def THEN Frac(x.n - r * x.d, x.d) ELSE Undefined

\* ------------------------------------------------------------- variables
VARIABLES
    staging,      \* duck_store_staging, in insertion order
    errors,       \* validation_errors, in insertion order
    duck_store,   \* duck_store (the analytic table), in insertion order
    faults,       \* store faults injected so far
    last          \* what the last request did and answered

vars == <<staging, errors, duck_store, faults, last>>

\* ----------------------------------------------------------- hash and id
\* sha256 of str(tuple(row.values)): equal exactly for equal field tuples.
Hash(c) == <<c.description, c.quantity, c.total_sales, c.rrp>>

\* df with the hash and id columns: uuid7 ids are unique and time ordered,
\* the k-th row ever staged gets id k.
Frame(stg, batch) ==
    [i \in 1..Len(batch) |->
        [id |-> Len(stg) + i, hash |-> Hash(batch[i]),
         description |-> batch[i].description,
         quantity |-> batch[i].quantity,
         total_sales |-> batch[i].total_sales,
         rrp |-> batch[i].rrp]]

\* ------------------------------------------------------------ validation
\* The cell constraints of validation_schema, in field order.
validation_schema(row) ==
    (IF row.description = NULL
        THEN <<[field_name |-> "description", note |-> "required"]>> ELSE <<>>)
    \o (IF row.quantity < 0
        THEN <<[field_name |-> "quantity", note |-> "minimum"]>> ELSE <<>>)
    \o (IF row.total_sales < 0
        THEN <<[field_name |-> "total_sales", note |-> "minimum"]>> ELSE <<>>)
    \o (IF row.rrp < 0
        THEN <<[field_name |-> "rrp", note |-> "minimum"]>> ELSE <<>>)

\* "unique": True on hash: a row whose hash was seen in an earlier row.
\* The report lists a row's cell errors first, then its unique error.
UniqueHash(data, i) ==
    IF \E j \in 1..(i - 1) : data[j].hash = data[i].hash
        THEN <<[field_name |-> "hash", note |-> "unique"]>> ELSE <<>>

\* Error records that name the row by its position in the validated data.
RowErrorsByPosition(data, i) ==
    LET es == validation_schema(data[i]) \o UniqueHash(data, i)
    IN  [k \in 1..Len(es) |->
            [row_id |-> i + 1, hash |-> data[i].hash,
             field_name |-> es[k].field_name, note |-> es[k].note]]

\* The error records built from the report's errors of row i.
RowErrors(data, i) ==
    LET es == validation_schema(data[i]) \o UniqueHash(data, i)
    IN  [k \in 1..Len(es) |->
            [row_id |-> data[i].id, hash |-> data[i].hash,
             field_name |-> es[k].field_name, note |-> es[k].note]]

RECURSIVE Flatten(_, _)
Flatten(data, i) ==
    IF i > Len(data) THEN <<>> ELSE RowErrors(data, i) \o Flatten(data, i + 1)

\* (ids, errors_to_insert): one id appended per error record.
data_validate(data) ==
    LET errors_to_insert == IF data # <<>> THEN Flatten(data, 1) ELSE <<>>
    IN  [ids |-> [k \in 1..Len(errors_to_insert) |-> errors_to_insert[k].row_id],
         errors |-> errors_to_insert]

\* SELECT * FROM duck_store_staging, validate all of it, append the errors.
\* The scan has no ORDER BY; DuckDB returns the rows in insertion order
\* (preserve_insertion_order is on by default).
process_validation(stg, errs) ==
    LET v == data_validate(stg)
    IN  [ids |-> v.ids, errors |-> errs \o v.errors]

\* --------------------------------------------------------------- tables
\* CREATE OR REPLACE TABLE in place of CREATE TABLE IF NOT EXISTS.
CreateOrReplace(table) == <<>>

\* A table after init_query, which every DuckDB() runs on connecting:
\* CREATE TABLE IF NOT EXISTS keeps an existing table and its rows.
init_query(table) == table

\* An insert that keeps the rows before the one it raised on.
InsertStagingUntilBad(stg, df, bad) ==
    IF bad = 0 THEN stg \o df ELSE stg \o SubSeq(df, 1, bad - 1)

\* The table after INSERT INTO duck_store_staging SELECT * FROM df; "bad" is
\* the position in df of a row with a value its column cannot hold (0 if
\* none): the statement raises on it and inserts nothing.
InsertStaging(stg, df, bad) == IF bad = 0 THEN stg \o df ELSE stg

\* ------------------------------------------------------------- promotion
Range(s) == { s[i] : i \in 1..Len(s) }

\* SELECT ..., total_sales/quantity AS sale_price,
\*        total_sales/quantity - rrp AS margin FROM duck_store_staging
\* WHERE id NOT IN (ids)
Derive(row) ==
    [id |-> row.id, hash |-> row.hash, description |-> row.description,
     quantity |-> row.quantity, total_sales |-> row.total_sales,
     rrp |-> row.rrp,
     sale_price |-> Divide(row.total_sales, row.quantity),
     margin |-> Minus(Divide(row.total_sales, row.quantity), row.rrp)]

\* The filter with IN in place of NOT IN.
InIds(row, ids) == row.id \in Range(ids)

NotInIds(row, ids) == row.id \notin Range(ids)

\* The promotion SELECT without its WHERE clause.
PromotionSelectAll(stg, ids) == [i \in 1..Len(stg) |-> Derive(stg[i])]

\* A promotion SELECT that leaves out the rows already in duck_store.
PromotionSelectUnpromoted(stg, ids) ==
    LET keep == SelectSeq(stg, LAMBDA r :
                    /\ NotInIds(r, ids)
                    /\ \A j \in 1..Len(duck_store) : duck_store[j].hash # r.hash)
    IN  [i \in 1..Len(keep) |-> Derive(keep[i])]

PromotionSelect(stg, ids) ==
    LET keep == SelectSeq(stg, LAMBDA r : NotInIds(r, ids))
    IN  [i \in 1..Len(keep) |-> Derive(keep[i])]

\* A promotion that runs whatever the validation returned.
PromotionAlways(ids) == TRUE

\* if ids: the promotion insert runs only when validation returned an id.
PromotionRuns(ids) == ids # <<>>

\* duck_store declared without UNIQUE on hash.
NoUniqueConstraint(store, sel) == FALSE

\* hash VARCHAR UNIQUE on duck_store: the insert of rows sel would leave two
\* rows with one hash.
UniqueViolation(store, sel) ==
    \/ \E i \in 1..Len(sel) : \E j \in 1..Len(store) : sel[i].hash = store[j].hash
    \/ \E i, j \in 1..Len(sel) : i # j /\ sel[i].hash = sel[j].hash

\* An insert that keeps the rows it wrote before it raised.
InsertNonConflicting(store, sel, ok) ==
    store \o SelectSeq(sel, LAMBDA r :
                \A j \in 1..Len(store) : store[j].hash # r.hash)

\* The table after INSERT INTO duck_store of rows sel; a statement that
\* raises inserts nothing.
InsertDuckStore(store, sel, ok) == IF ok THEN store \o sel ELSE store

\* The status the handler answers with: the except clause turns every
\* exception into HTTPException(500, "Ingestion failed: ...").
StatusCode(raised) == IF raised = "none" THEN 200 ELSE 500

\* A response that reports every received row as ingested.
ResponseAllIngested(n, ids) ==
    [rows_for_review |-> Len(ids), rows_ingested |-> n, rows_received |-> n]

\* DataIngestionResponse(rows_for_review=len(ids),
\*     rows_ingested=df.shape[0] - len(ids), rows_received=df.shape[0])
DataIngestionResponse(n, ids) ==
    [rows_for_review |-> Len(ids), rows_ingested |-> n - Len(ids),
     rows_received |-> n]

NoResponse == [rows_for_review |-> 0, rows_ingested |-> 0, rows_received |-> 0]

\* ------------------------------------------------------------------ Init
NoRequest ==
    [raised |-> "start", code |-> 0, body |-> NoResponse,
     n |-> 0, pre_staging |-> <<>>, pre_errors |-> <<>>, pre_store |-> <<>>,
     ids |-> <<>>, insert |-> FALSE, met_existing |-> FALSE]

Init ==
    /\ staging = <<>>
    /\ errors = <<>>
    /\ duck_store = <<>>
    /\ faults = 0
    /\ last = NoRequest

\* ---------------------------------------------------------------- ingest
\* POST /api/ingest with a file of rows "batch"; "fault" is where the store
\* raises on its own (if anywhere), "cut" how many of the error records an
\* interrupted executemany had already written.
Ingest(batch, fault, cut) ==
    /\ Len(staging) + Len(batch) <= MaxStaged
    /\ fault # "none" => faults < MaxFaults
    /\ LET df == Frame(staging, batch)
           staged == staging \o df
       IN  \E pv \in {process_validation(staged, errors)} :
           \E sel \in {PromotionSelect(staged, pv.ids)} :
           \* new: the error records of this validation pass
           LET new == SubSeq(pv.errors, Len(errors) + 1, Len(pv.errors))
               insert == fault \notin {"validation", "persist"}
                            /\ PromotionRuns(pv.ids)
               conflict == insert /\ UniqueViolation(duck_store, sel)
               raised == IF fault \in {"validation", "persist"} THEN fault
                         ELSE IF insert /\ fault = "promotion" THEN "promotion"
                         ELSE IF conflict THEN "constraint"
                         ELSE "none"
           IN
        /\ fault = "persist" => cut < Len(new)
        /\ fault # "persist" => cut = 0
        /\ fault = "promotion" => PromotionRuns(pv.ids)
        /\ staging' = InsertStaging(staging, df, 0)
        /\ errors' = CASE fault = "validation" -> errors
                       [] fault = "persist" -> errors \o SubSeq(new, 1, cut)
                       [] OTHER -> pv.errors
        /\ duck_store' = IF insert
                            THEN InsertDuckStore(duck_store, sel, raised = "none")
                            ELSE duck_store
        /\ faults' = IF fault = "none" THEN faults ELSE faults + 1
        /\ last' = [raised |-> raised, code |-> StatusCode(raised),
                    body |-> IF raised = "none"
                                THEN DataIngestionResponse(Len(df), pv.ids)
                                ELSE NoResponse,
                    n |-> Len(df),
                    pre_staging |-> staging, pre_errors |-> errors,
                    pre_store |-> duck_store,
                    ids |-> IF fault = "validation" THEN <<>> ELSE pv.ids,
                    insert |-> insert,
                    met_existing |-> insert /\
                        \E i \in 1..Len(sel) : \E j \in 1..Len(duck_store) :
                            sel[i].hash = duck_store[j].hash]

\* How an uploaded file can be malformed: read_csv cannot parse it, a
\* column the handler indexes is missing, a value does not fit its staging
\* column.
Malformed == {"unparsable", "missing_column", "bad_value"}

\* POST /api/ingest with a malformed file of rows "batch"; "bad" is the
\* position of the row with the value that cannot be stored.  The first two
\* kinds raise before the staging insert is reached.
IngestMalformed(batch, kind, bad) ==
    LET df == Frame(staging, batch)
    IN  /\ Len(staging) + Len(batch) <= MaxStaged
        /\ bad \in 1..Len(batch)
        /\ kind # "bad_value" => bad = 1
        /\ staging' = IF kind = "bad_value"
                          THEN InsertStaging(staging, df, bad) ELSE staging
        /\ UNCHANGED <<errors, duck_store, faults>>
        /\ last' = [NoRequest EXCEPT !.raised = "input",
                        !.code = StatusCode("input"), !.n = Len(batch),
                        !.pre_staging = staging, !.pre_errors = errors,
                        !.pre_store = duck_store]

\* GET /api/errors, /api/quality, /api/promo, /api/pricing: each read_query
\* opens DuckDB(), which runs init_query, then a SELECT, then closes.  What
\* the reports return is modelled by ReportSpec below.
read_query ==
    /\ staging' = init_query(staging)
    /\ errors' = init_query(errors)
    /\ duck_store' = init_query(duck_store)
    /\ UNCHANGED faults
    /\ last' = [NoRequest EXCEPT !.raised = "report",
                    !.pre_staging = staging, !.pre_errors = errors,
                    !.pre_store = duck_store]

\* The error records an interrupted executemany may have written.
Cuts(batch, fault) ==
    IF fault = "persist" /\ Len(staging) + Len(batch) <= MaxStaged
        THEN 0..(Len(data_validate(staging \o Frame(staging, batch)).errors) - 1)
        ELSE {0}

Next ==
    \/ \E batch \in BatchesOf(MaxStaged - Len(staging)) : \E fault \in Faults :
            \E cut \in Cuts(batch, fault) : Ingest(batch, fault, cut)
    \/ \E batch \in BatchesOf(MaxStaged - Len(staging)) :
            \E kind \in Malformed : \E bad \in 1..Len(batch) :
                IngestMalformed(batch, kind, bad)
    \/ read_query

Spec == Init /\ [][Next]_vars

\* =============================================================== reports
\* The reports of src/src/services.py as functions of the tables they read,
\* and the GET handlers of src/src/main.py around them.  ReportSpec starts
\* from a staging table (quality report) or an analytic table (promotion
\* and pricing reports) of at most MaxReportRows rows and applies them.

MaxReportRows == 2     \* rows of the table a report reads

\* A NULL in a numeric column.
NoValue == -999

IsNull(x) == x = NoValue

RECURSIVE SumOver(_, _)
\* The sum of f[i] over the indexes i in I.
SumOver(I, f) ==
    IF I = {} THEN 0
    ELSE LET i == CHOOSE j \in I : TRUE IN f[i] + SumOver(I \ {i}, f)

RECURSIVE ProductOver(_, _)
ProductOver(I, f) ==
    IF I = {} THEN 1
    ELSE LET i == CHOOSE j \in I : TRUE IN f[i] * ProductOver(I \ {i}, f)

\* ------------------------------------------------------- quality report
\* The staged rows the quality report reads.
QualityRows ==
    [store_name : {"s1", "s2"}, supplier : {"acme"},
     quantity : {NoValue, -1, 0, 1, 10}, total_sales : {0, 10}, rrp : {8}]

\* The rows of one GROUP BY group.
GroupOf(rows, col, name) == { i \in 1..Len(rows) : rows[i][col] = name }

\* SUM(CASE WHEN quantity IS NULL OR total_sales IS NULL THEN 1 ELSE 0 END)
null_sales(rows, I) ==
    Cardinality({ i \in I : IsNull(rows[i].quantity) \/ IsNull(rows[i].total_sales) })

\* SUM(CASE WHEN quantity = 0 OR total_sales = 0 THEN 1 ELSE 0 END); a
\* comparison with NULL is not true.
zero_sales(rows, I) ==
    Cardinality({ i \in I : rows[i].quantity = 0 \/ rows[i].total_sales = 0 })

\* SUM(CASE WHEN quantity < 0 OR total_sales < 0 THEN 1 ELSE 0 END)
negative_values(rows, I) ==
    Cardinality({ i \in I :
        \/ ~IsNull(rows[i].quantity) /\ rows[i].quantity < 0
        \/ ~IsNull(rows[i].total_sales) /\ rows[i].total_sales < 0 })

\* The rows where total_sales/NULLIF(quantity, 0) is not NULL.
Priced(rows, I) ==
    { i \in I : /\ ~IsNull(rows[i].quantity) /\ rows[i].quantity # 0
                /\ ~IsNull(rows[i].total_sales) }

\* The unit prices total_sales/quantity of the priced rows, all multiplied
\* by the product of the absolute quantities, which makes them integers.
ScaledPrices(rows, I) ==
    LET P == Priced(rows, I)
        D == ProductOver(P, [i \in P |-> Abs(rows[i].quantity)])
    IN  [i \in P |-> rows[i].total_sales * (D \div rows[i].quantity)]

\* STDDEV(unit price) > AVG(unit price) * k: NULL (not true) with fewer than
\* two prices; the sample deviation s exceeds k times the mean m when m < 0
\* or s^2 > k^2 m^2, that is n (n SUM(p^2) - SUM(p)^2) > k^2 (n - 1) SUM(p)^2.
VolatilityAbove(rows, I, k) ==
    LET sp == ScaledPrices(rows, I)
        P == DOMAIN sp
        n == Cardinality(P)
        s1 == SumOver(P, sp)
        s2 == SumOver(P, [i \in P |-> sp[i] * sp[i]])
    IN  /\ n >= 2
        /\ \/ s1 < 0
           \/ n * (n * s2 - s1 * s1) > k * k * (n - 1) * s1 * s1

\* The HAVING clause with the volatility compared to 1x the average.
StoreHavingVolatility1x(rows, I) ==
    \/ 10 * zero_sales(rows, I) > Cardinality(I)
    \/ negative_values(rows, I) > 0
    \/ VolatilityAbove(rows, I, 1)

\* HAVING zero_sales > total_transactions * 0.1 OR negative_values > 0
\*     OR price_volatility > avg_unit_price * 2
StoreHaving(rows, I) ==
    \/ 10 * zero_sales(rows, I) > Cardinality(I)
    \/ negative_values(rows, I) > 0
    \/ VolatilityAbove(rows, I, 2)

\* The issues listed for a store row of the query.
StoreIssues(rows, I) ==
    (IF negative_values(rows, I) > 0 THEN {"negative values"} ELSE {})
    \cup (IF 5 * null_sales(rows, I) > Cardinality(I) THEN {"nulls"} ELSE {})
    \cup (IF 5 * zero_sales(rows, I) > Cardinality(I)
            THEN {"zero sales"} ELSE {})
    \cup (IF VolatilityAbove(rows, I, 2) /\ VolatilityAbove(rows, I, 0)
                /\ SumOver(DOMAIN ScaledPrices(rows, I),
                           ScaledPrices(rows, I)) # 0
            THEN {"volatility"} ELSE {})

\* supplier_query: zero_sales counts NULLs too, missing_rrp is a NULL or 0
\* rrp, store_coverage the distinct stores.
SupplierHaving(rows, I) ==
    \/ 100 * (Cardinality({ i \in I :
                \/ rows[i].quantity = 0 \/ rows[i].total_sales = 0
                \/ IsNull(rows[i].quantity) \/ IsNull(rows[i].total_sales) }))
            > 15 * Cardinality(I)
    \/ 100 * Cardinality({ i \in I : IsNull(rows[i].rrp) \/ rows[i].rrp = 0 })
            > 15 * Cardinality(I)
    \/ Cardinality({ rows[i].store_name : i \in I }) < 3

\* "good" if len(unreliable) < total * 0.1 else "needs_attention"
Health(unreliable, total) ==
    IF 10 * unreliable < total THEN "good" ELSE "needs_attention"

\* quality_report(): the report, or "raised" when the percentages of the
\* summary divide by a zero total.
quality_report(rows) ==
    LET stores == { rows[i].store_name : i \in 1..Len(rows) }
        suppliers == { rows[i].supplier : i \in 1..Len(rows) }
        total_stores == Cardinality(stores)
        total_suppliers == Cardinality(suppliers)
        df_store == { s \in stores :
                        StoreHaving(rows, GroupOf(rows, "store_name", s)) }
        df_supplier == { u \in suppliers :
                        SupplierHaving(rows, GroupOf(rows, "supplier", u)) }
    IN  [raised |-> total_stores = 0 \/ total_suppliers = 0,
         unreliable_stores |-> df_store,
         issues |-> [s \in df_store |->
                        StoreIssues(rows, GroupOf(rows, "store_name", s))],
         unreliable_suppliers |-> df_supplier,
         overall_store_health |->
            IF df_store # {} THEN Health(Cardinality(df_store), total_stores)
            ELSE "None",
         overal_supplier_health |->
            IF df_supplier # {}
                THEN Health(Cardinality(df_supplier), total_suppliers)
            ELSE "None"]

\* ------------------------------------------------------------- strings
\* Text is a sequence of characters.
LowerChar(c) ==
    CASE c = "B" -> "b" [] c = "I" -> "i" [] c = "D" -> "d"
      [] c = "C" -> "c" [] c = "O" -> "o" [] OTHER -> c

\* LOWER(s)
Lower(str) == [i \in 1..Len(str) |-> LowerChar(str[i])]

\* CONTAINS(s, sub)
Contains(str, sub) ==
    \E k \in 0..(Len(str) - Len(sub)) : SubSeq(str, k + 1, k + Len(sub)) = sub

bidco == <<"b", "i", "d", "c", "o">>

\* The supplier names stored and the supplier arguments of the requests.
Suppliers == { <<"B", "I", "D", "C", "O">>, <<"u", "n", "g", "a">> }

SupplierArgs == { <<"b", "i", "d">>, <<"B", "I", "D">>, <<"u", "n">> }

\* min_uplift: None or a percentage.
MinUplifts == {NoValue, 0}

\* ------------------------------------------------------ rounded division
\* ROUND(a / b, 0) for b > 0, halves away from zero.
RoundDiv(a, b) ==
    IF a >= 0 THEN (2 * a + b) \div (2 * b) ELSE -((2 * (-a) + b) \div (2 * b))

\* x + y and x / n for fractions x, y and an integer n > 0
FracAdd(x, y) == Frac(x.n * y.d + y.n * x.d, x.d * y.d)

FracOver(x, n) == Frac(x.n, x.d * n)

RECURSIVE FracSum(_, _)
FracSum(I, f) ==
    IF I = {} THEN Frac(0, 1)
    ELSE LET i == CHOOSE j \in I : TRUE IN FracAdd(f[i], FracSum(I \ {i}, f))

\* AVG of the fractions f[i], i in I (I not empty)
FracAvg(I, f) == FracOver(FracSum(I, f), Cardinality(I))

\* ----------------------------------------------------- promotion report
\* The analytic rows the promotion and pricing reports read.
\* Sales <<quantity, total_sales>> at unit prices 8, 9 and 10; rrp is 10.
Sales == { <<2, 16>>, <<1, 9>>, <<1, 10>> }

AnalyticRows ==
    { [supplier |-> u, description |-> d, section |-> "home",
       store_name |-> "s1", sub_department |-> "care",
       quantity |-> qt[1], total_sales |-> qt[2], rrp |-> 10,
       sale_price |-> Divide(qt[2], qt[1])] :
        u \in Suppliers, d \in {"soap", "oil"}, qt \in Sales }

\* WHERE rrp IS NOT NULL AND sale_price IS NOT NULL
\*   AND CONTAINS(LOWER(supplier), '{supplier}')
PromoWhere(row, supplier) ==
    /\ ~IsNull(row.rrp)
    /\ row.sale_price.def
    /\ Contains(Lower(row.supplier), supplier)

\* sale_price <= rrp * 0.90 and sale_price >= rrp * 0.90
IsPromo(row) == 10 * row.sale_price.n <= 9 * row.rrp * row.sale_price.d

IsBaseline(row) == 10 * row.sale_price.n >= 9 * row.rrp * row.sale_price.d

\* promotion_report(supplier, min_uplift): "nodata" when the query returns
\* no group and the function raises HTTPException(204); uplift_pct is in
\* hundredths of a percent.
promotion_report(rows, supplier, min_uplift) ==
    LET matched == { i \in 1..Len(rows) : PromoWhere(rows[i], supplier) }
        keys == { <<rows[i].description, rows[i].section>> : i \in matched }
        G(k) == { i \in matched :
                    <<rows[i].description, rows[i].section>> = k }
        promo_units(k) ==
            SumOver({ i \in G(k) : IsPromo(rows[i]) },
                    [i \in G(k) |-> rows[i].quantity])
        baseline_units(k) ==
            SumOver({ i \in G(k) : IsBaseline(rows[i]) },
                    [i \in G(k) |-> rows[i].quantity])
        df_promo == { k \in keys : promo_units(k) > 0 /\ baseline_units(k) > 0 }
        uplift_pct(k) ==
            RoundDiv((promo_units(k) - baseline_units(k)) * 10000,
                     baseline_units(k))
        kept == { k \in df_promo :
                    IsNull(min_uplift) \/ uplift_pct(k) >= 100 * min_uplift }
        uplifts == { [product_name |-> k[1], section |-> k[2],
                      promo_units |-> promo_units(k),
                      baseline_units |-> baseline_units(k),
                      uplift_pct |-> uplift_pct(k)] : k \in kept }
    IN  [nodata |-> df_promo = {},
         matched |-> matched,
         uplifts |-> IF df_promo = {} THEN {} ELSE uplifts,
         total_promoted_products |->
            IF df_promo = {} THEN 0 ELSE Cardinality(kept)]

\* ------------------------------------------------------- pricing report
Segment(row) == <<row.store_name, row.sub_department, row.section>>

\* "discount" below 90, "premium" above 105, else "market"; the index is in
\* hundredths.
Position(price_index) ==
    IF price_index < 9000 THEN "discount"
    ELSE IF price_index > 10500 THEN "premium" ELSE "market"

\* pricing_report(supplier): the target rows are those of the suppliers
\* whose lower-cased name contains 'bidco', whatever the argument.
pricing_report(rows, supplier) ==
    LET sold == { i \in 1..Len(rows) :
                    rows[i].quantity > 0 /\ rows[i].total_sales > 0 }
        price == [i \in sold |-> Divide(rows[i].total_sales, rows[i].quantity)]
        \* item_prices: one row per (segment, supplier)
        items == { <<Segment(rows[i]), rows[i].supplier>> : i \in sold }
        avg_unit_price(it) ==
            FracAvg({ i \in sold : <<Segment(rows[i]), rows[i].supplier>> = it },
                    price)
        others(seg) ==
            { it \in items : it[1] = seg /\ ~Contains(Lower(it[2]), bidco) }
        competitor_avg_price(seg) ==
            FracAvg(others(seg), [it \in others(seg) |-> avg_unit_price(it)])
        df_price == { it \in items :
                        /\ Contains(Lower(it[2]), bidco)
                        /\ others(it[1]) # {} }
        index(it) ==
            LET a == avg_unit_price(it)
                c == competitor_avg_price(it[1])
            IN  RoundDiv(a.n * c.d * 10000, a.d * c.n)
    IN  [nodata |-> df_price = {},
         suppliers |-> { it[2] : it \in df_price },
         supplier_pricing |->
            { [store_name |-> it[1][1], sub_department |-> it[1][2],
               section |-> it[1][3], price_index |-> index(it),
               market_position |-> Position(index(it))] : it \in df_price },
         \* "supplier" is rebound by the loop over df_price: after it, it
         \* is the supplier of the last row, the one of lowest price_index.
         summary_supplier |->
            IF df_price = {} THEN supplier
            ELSE (CHOOSE it \in df_price :
                    \A o \in df_price : index(it) <= index(o))[2]]

\* ------------------------------------------------------------- handlers
\* What a GET handler answers: the report with 200, and 500 for every
\* exception, the HTTPException(204) of a report without data included.
ReportStatus(raised) == IF raised THEN 500 ELSE 200

NoReport == [nodata |-> FALSE]

\* GET /api/quality; "fault" is a query that breaks.
data_quality(fault) ==
    LET report == quality_report(staging)
        raised == fault \/ report.raised
    IN  /\ last' = [kind |-> "quality", fault |-> fault,
                    nodata |-> staging = <<>>,
                    supplier |-> <<>>, min_uplift |-> NoValue,
                    code |-> ReportStatus(raised),
                    report |-> IF raised THEN NoReport ELSE report]
        /\ UNCHANGED <<staging, errors, duck_store, faults>>

\* GET /api/promo
sales_promotion(supplier, min_uplift, fault) ==
    LET report == promotion_report(duck_store, supplier, min_uplift)
        raised == fault \/ report.nodata
    IN  /\ last' = [kind |-> "promo", fault |-> fault,
                    nodata |-> report.nodata,
                    supplier |-> supplier, min_uplift |-> min_uplift,
                    code |-> ReportStatus(raised),
                    report |-> IF raised THEN NoReport ELSE report]
        /\ UNCHANGED <<staging, errors, duck_store, faults>>

\* GET /api/pricing
pricing_index(supplier, fault) ==
    LET report == pricing_report(duck_store, supplier)
        raised == fault \/ report.nodata
    IN  /\ last' = [kind |-> "pricing", fault |-> fault,
                    nodata |-> report.nodata,
                    supplier |-> supplier, min_uplift |-> NoValue,
                    code |-> ReportStatus(raised),
                    report |-> IF raised THEN NoReport ELSE report]
        /\ UNCHANGED <<staging, errors, duck_store, faults>>

\* The tables of at most MaxReportRows rows drawn from a set of rows.
TablesOf(Rows) == UNION { [1..n -> Rows] : n \in 0..MaxReportRows }

ReportInit ==
    /\ \/ staging \in TablesOf(QualityRows) /\ duck_store = <<>>
       \/ staging = <<>> /\ duck_store \in TablesOf(AnalyticRows)
    /\ errors = <<>>
    /\ faults = 0
    /\ last = [kind |-> "start", fault |-> FALSE, nodata |-> FALSE,
               supplier |-> <<>>, min_uplift |-> NoValue, code |-> 0,
               report |-> NoReport]

ReportNext ==
    \/ \E fault \in BOOLEAN : data_quality(fault)
    \/ \E supplier \in SupplierArgs, min_uplift \in MinUplifts :
            sales_promotion(supplier, min_uplift, FALSE)
    \/ sales_promotion(<<"b", "i", "d">>, NoValue, TRUE)
    \/ \E supplier \in SupplierArgs : pricing_index(supplier, FALSE)
    \/ pricing_index(<<"b", "i", "d">>, TRUE)

ReportSpec == ReportInit /\ [][ReportNext]_vars

\* ====================================================== error messages
\* The message of a validation error: data_validate rewrites the message of
\* the validation report (src/src/validation.py) and validation_report
\* rewrites the stored one (src/src/services.py).  A text is a sequence of
\* tokens: a decimal digit, a sign and a quote are tokens of their own, a
\* word without digit or quote is one token.  MessageSpec starts from one
\* error of the validation report, stores it and reads it back.

MaxRowNumber == 12     \* position of the last row of the validated data

\* str(n) for n >= 0
DigitOf(n) == <<"0", "1", "2", "3", "4", "5", "6", "7", "8", "9">>[n + 1]

RECURSIVE Digits(_)
Digits(n) ==
    IF n < 10 THEN <<DigitOf(n)>>
    ELSE Digits(n \div 10) \o <<DigitOf(n % 10)>>

\* str(cell) of a numeric cell below the minimum
CellText(n) == <<"-">> \o Digits(-n)

Quote == "\""

Quoted(text) == <<Quote>> \o text \o <<Quote>>

\* Position of each field in validation_schema.
FieldNumber ==
    [id |-> 1, hash |-> 2, store_name |-> 3, item_code |-> 4,
     item_barcode |-> 5, description |-> 6, category |-> 7,
     department |-> 8, sub_department |-> 9, section |-> 10,
     quantity |-> 11, total_sales |-> 12, rrp |-> 13, supplier |-> 14,
     date_of_sale |-> 15]

\* The note of an error of the validation report.
Note(kind, first) ==
    CASE kind = "minimum" ->
            <<"constraint">> \o Quoted(<<"minimum">>) \o <<"is">>
                \o Quoted(<<"0", ".", "0">>)
      [] kind = "required" ->
            <<"constraint">> \o Quoted(<<"required">>) \o <<"is">>
                \o Quoted(<<"True">>)
      [] kind = "unique" ->
            <<"the same as in the row at position">> \o first

\* The message of the validation report for an error on a cell, with the
\* row and the field position written as given.
Template(kind, cell, row, field_name, field, first) ==
    IF kind = "unique"
        THEN <<"Row at position">> \o Quoted(row)
                \o <<"has unique constraint violation in field">>
                \o Quoted(<<field_name>>) \o <<"at position">>
                \o Quoted(field) \o <<":">> \o Note(kind, first)
        ELSE <<"The cell">> \o Quoted(cell) \o <<"in row at position">>
                \o Quoted(row) \o <<"and field">> \o Quoted(<<field_name>>)
                \o <<"at position">> \o Quoted(field)
                \o <<"does not conform to a constraint:">>
                \o Note(kind, first)

\* The errors report.flatten yields: cell, rowNumber, fieldName,
\* fieldNumber, message, and row_loc = cells[0], the id of the row.
FlatErrors ==
    { [kind |-> "minimum", cell |-> CellText(n), rowNumber |-> r,
       fieldName |-> f, fieldNumber |-> FieldNumber[f], first |-> 0,
       row_loc |-> "row_id",
       message |-> Template("minimum", CellText(n), Digits(r), f,
                            Digits(FieldNumber[f]), <<>>)] :
        n \in {-1, -2, -11}, r \in 2..MaxRowNumber,
        f \in {"quantity", "total_sales", "rrp"} }
    \cup
    { [kind |-> "required", cell |-> <<"None">>, rowNumber |-> r,
       fieldName |-> "description", fieldNumber |-> FieldNumber.description,
       first |-> 0, row_loc |-> "row_id",
       message |-> Template("required", <<"None">>, Digits(r),
                            "description", Digits(FieldNumber.description),
                            <<>>)] :
        r \in 2..MaxRowNumber }
    \cup
    { [kind |-> "unique", cell |-> <<"sha256">>, rowNumber |-> r,
       fieldName |-> "hash", fieldNumber |-> FieldNumber.hash,
       first |-> r - 1, row_loc |-> "row_id",
       message |-> Template("unique", <<"sha256">>, Digits(r), "hash",
                            Digits(FieldNumber.hash), Digits(r - 1))] :
        r \in 3..MaxRowNumber }

RECURSIVE Replace(_, _, _)
\* text.replace(old, new): every occurrence of old, from the left.
Replace(text, old, new) ==
    IF Len(text) < Len(old) THEN text
    ELSE IF SubSeq(text, 1, Len(old)) = old
        THEN new \o Replace(SubSeq(text, Len(old) + 1, Len(text)), old, new)
        ELSE <<Head(text)>> \o Replace(Tail(text), old, new)

\* message = error[4].replace(field_number, field_name)
\*                   .replace(row_number, row_loc)
Message(error) ==
    Replace(Replace(error.message, Digits(error.fieldNumber),
                    <<error.fieldName>>),
            Digits(error.rowNumber), <<error.row_loc>>)

error_record(error) ==
    [row_id |-> error.row_loc, field_name |-> error.fieldName,
     cell_value |-> error.cell, message |-> Message(error),
     note |-> Note(error.kind, Digits(error.first))]

\* re.sub(r'"([^"]*)"', r"[\1]", text): each quote that opens a quoted part
\* becomes "[", the quote that closes it "]".
ReSub(text) ==
    [i \in 1..Len(text) |->
        IF text[i] # Quote THEN text[i]
        ELSE IF Cardinality({ j \in 1..(i - 1) : text[j] = Quote }) % 2 = 1
            THEN "]"
        ELSE IF \E j \in (i + 1)..Len(text) : text[j] = Quote
            THEN "["
        ELSE Quote]

\* errors of ValidationReport
validation_report(errs) == [k \in 1..Len(errs) |-> ReSub(errs[k].message)]

\* process_validation on one error: the record goes to validation_errors.
InsertError ==
    /\ last.kind = "start"
    /\ errors' = errors \o <<error_record(last.error)>>
    /\ last' = [last EXCEPT !.kind = "stored"]
    /\ UNCHANGED <<staging, duck_store, faults>>

\* GET /api/errors
validation_errors ==
    /\ last.kind # "start"
    /\ last' = [last EXCEPT !.kind = "returned",
                            !.returned = validation_report(errors)]
    /\ UNCHANGED <<staging, errors, duck_store, faults>>

MessageInit ==
    /\ staging = <<>>
    /\ errors = <<>>
    /\ duck_store = <<>>
    /\ faults = 0
    /\ \E error \in FlatErrors :
            last = [kind |-> "start", error |-> error, returned |-> <<>>]

MessageNext == InsertError \/ validation_errors

MessageSpec == MessageInit /\ [][MessageNext]_vars

\* ================================================================ claims
\* Positions in staging of the rows the last request staged.
LastRows == (Len(last.pre_staging) + 1)..Len(staging)

\* The last request found all three tables empty.
FromEmpty ==
    last.pre_staging = <<>> /\ last.pre_errors = <<>> /\ last.pre_store = <<>>

\* The error records stored for the staged row with this id.
ErrorsOfRow(id) == { k \in 1..Len(errors) : errors[k].row_id = id }

\* The analytic rows with this hash.
AnalyticWithHash(h) == { j \in 1..Len(duck_store) : duck_store[j].hash = h }

\* The rules the staged row at position i violates: a missing description,
\* a negative quantity, total_sales or rrp, a hash already staged before it.
Violations(i) ==
    (IF staging[i].description = NULL THEN {"description"} ELSE {})
    \cup (IF staging[i].quantity < 0 THEN {"quantity"} ELSE {})
    \cup (IF staging[i].total_sales < 0 THEN {"total_sales"} ELSE {})
    \cup (IF staging[i].rrp < 0 THEN {"rrp"} ELSE {})
    \cup (IF \E j \in 1..(i - 1) : staging[j].hash = staging[i].hash
            THEN {"hash"} ELSE {})

\* C1: after every Ingest request that returns successfully, each row it
\* staged for which no ValidationError is stored has exactly one analytic
\* row with the same hash.
C1_ValidRowPromotedOnce ==
    last.code = 200 =>
        \A i \in LastRows :
            ErrorsOfRow(staging[i].id) = {} =>
                Cardinality(AnalyticWithHash(staging[i].hash)) = 1

\* C2: no analytic row carries the id of a staged row that has at least one
\* ValidationError record.
C2_NoViolatingRowPromoted ==
    \A j \in 1..Len(duck_store) : ErrorsOfRow(duck_store[j].id) = {}

\* A request has just promoted a row out of a staging table that also holds
\* a row with a recorded violation.
C2_Witness ==
    /\ last.code = 200
    /\ Len(duck_store) > Len(last.pre_store)
    /\ \E i \in 1..Len(staging) : ErrorsOfRow(staging[i].id) # {}

\* C3: the analytic store never contains two rows with the same hash, also
\* after a batch repeats the field values of an already promoted row.
C3_AnalyticHashUnique ==
    \A i, j \in 1..Len(duck_store) :
        i # j => duck_store[i].hash # duck_store[j].hash

\* The last request staged the field values of a row that was already in
\* the analytic store, which holds one row of that hash.
C3_Witness ==
    \E i \in LastRows :
        /\ \E j \in 1..Len(last.pre_store) :
                last.pre_store[j].hash = staging[i].hash
        /\ Cardinality(AnalyticWithHash(staging[i].hash)) = 1

\* C4: a request whose promotion meets a row whose hash already exists in
\* the analytic store does not end as an ingestion failure; it returns a
\* normal response.
C4_DuplicateOnPromotionNotFatal ==
    last.met_existing => last.code = 200

\* C5: every successful response reports rows_received = rows of the
\* request, rows_ingested = rows this request inserted into the analytic
\* store, rows_for_review = rows of this request with at least one violation.
C5_ResponseCounts ==
    last.code = 200 =>
        /\ last.body.rows_received = last.n
        /\ last.body.rows_ingested = Len(duck_store) - Len(last.pre_store)
        /\ last.body.rows_for_review =
                Cardinality({ i \in LastRows : Violations(i) # {} })

\* C6: from empty stores, a batch of n rows of which k >= 1 rows each violate
\* exactly one rule (the others none) yields received = n, ingested = n - k,
\* held_for_review = k, n - k analytic rows and k error records; for the
\* batch of the valid row (quantity 10, total_sales 100, rrp 8) and the same
\* row without description the one analytic row has sale_price 10 and
\* margin 2 and the one error record has field_name description.
C6_MixedBatchFromEmpty ==
    (last.code = 200 /\ FromEmpty) =>
        LET n == Len(staging)
            k == Cardinality({ i \in 1..n : Cardinality(Violations(i)) = 1 })
        IN  /\ (k >= 1 /\ \A i \in 1..n : Cardinality(Violations(i)) <= 1) =>
                /\ last.body = [rows_received |-> n, rows_ingested |-> n - k,
                                rows_for_review |-> k]
                /\ Len(duck_store) = n - k
                /\ Len(errors) = k
            /\ (/\ n = 2
                /\ { Hash(staging[i]) : i \in 1..n } =
                        { <<"soap", 10, 100, 8>>, <<NULL, 10, 100, 8>> }) =>
                /\ last.body = [rows_received |-> 2, rows_ingested |-> 1,
                                rows_for_review |-> 1]
                /\ Len(duck_store) = 1
                /\ duck_store[1].hash = <<"soap", 10, 100, 8>>
                /\ duck_store[1].sale_price = [def |-> TRUE, n |-> 10, d |-> 1]
                /\ duck_store[1].margin = [def |-> TRUE, n |-> 2, d |-> 1]
                /\ Len(errors) = 1
                /\ errors[1].field_name = "description"

\* The scenario's batch was ingested into empty stores and answered.
C6_Witness ==
    /\ last.code = 200
    /\ FromEmpty
    /\ Len(staging) = 2
    /\ { Hash(staging[i]) : i \in 1..2 } =
            { <<"soap", 10, 100, 8>>, <<NULL, 10, 100, 8>> }

\* C7: the validation-error store holds exactly one record per (staged row,
\* violated field): no violation is recorded twice.
C7_OneErrorPerRowField ==
    /\ \A a, b \in 1..Len(errors) :
            (errors[a].row_id = errors[b].row_id
                /\ errors[a].field_name = errors[b].field_name) => a = b

\* C8: no analytic row has quantity = 0.
C8_NoZeroQuantityPromoted ==
    \A j \in 1..Len(duck_store) : duck_store[j].quantity # 0

\* C9: every analytic row copies the staged row with its id and carries
\* defined values sale_price = total_sales / quantity and
\* margin = sale_price - rrp.
C9_AnalyticRowDerived ==
    \A j \in 1..Len(duck_store) :
        LET a == duck_store[j]
        IN  \E i \in 1..Len(staging) :
                /\ staging[i].id = a.id
                /\ staging[i].hash = a.hash
                /\ staging[i].description = a.description
                /\ staging[i].quantity = a.quantity
                /\ staging[i].total_sales = a.total_sales
                /\ staging[i].rrp = a.rrp
                /\ a.sale_price.def
                /\ a.margin.def
                /\ a.sale_price.n * a.quantity = a.total_sales * a.sale_price.d
                /\ a.margin.n * a.sale_price.d =
                        (a.sale_price.n - a.rrp * a.sale_price.d) * a.margin.d

\* C10: a request that fails after its staging write is answered as an
\* ingestion failure (500), the rows it staged are in the staging store and
\* the analytic store is as it was before the request.
C10_FailureKeepsStagingAndStore ==
    last.raised \in {"validation", "persist", "promotion", "constraint"} =>
        /\ last.code = 500
        /\ Len(staging) = Len(last.pre_staging) + last.n
        /\ SubSeq(staging, 1, Len(last.pre_staging)) = last.pre_staging
        /\ \A i \in LastRows : staging[i].id = i
        /\ duck_store = last.pre_store

\* A request failed in its promotion insert on the hash constraint while it
\* had selected a row that is not yet in the analytic store.
C10_Witness ==
    /\ last.raised = "constraint"
    /\ \E i \in 1..Len(staging) :
            /\ ErrorsOfRow(staging[i].id) = {}
            /\ AnalyticWithHash(staging[i].hash) = {}

\* s is an initial part of t.
IsPrefix(s, t) == Len(s) <= Len(t) /\ SubSeq(t, 1, Len(s)) = s

\* C12: an Ingest request with malformed input (unparsable, a required
\* column missing, a value its staging column cannot hold) fails as an
\* ingestion failure and writes none of its rows: the three tables are as
\* before the request.
C12_MalformedWritesNothing ==
    last.raised = "input" =>
        /\ last.code = 500
        /\ staging = last.pre_staging
        /\ errors = last.pre_errors
        /\ duck_store = last.pre_store

\* A malformed file of two rows was refused while staging held a row.
C12_Witness ==
    /\ last.raised = "input"
    /\ last.n = 2
    /\ staging # <<>>

\* C13: no request deletes or modifies an existing staging row,
\* ValidationError record or analytic row: each table only grows, and a
\* report leaves all three unchanged.
C13_TablesOnlyGrow ==
    [][/\ IsPrefix(staging, staging')
       /\ IsPrefix(errors, errors')
       /\ IsPrefix(duck_store, duck_store')
       /\ last'.raised = "report" =>
            (staging' = staging /\ errors' = errors /\ duck_store' = duck_store)
      ]_vars

\* A report ran over three non-empty tables.
C13_Witness ==
    /\ last.raised = "report"
    /\ staging # <<>>
    /\ errors # <<>>
    /\ duck_store # <<>>

\* C18 as claimed: for every staged row that has at least one ValidationError
\* of any kind, a duplicate-hash violation included, no analytic row with
\* that row's hash exists.
C18_NoAnalyticRowForErrorHash ==
    \A i \in 1..Len(staging) :
        ErrorsOfRow(staging[i].id) # {} =>
            AnalyticWithHash(staging[i].hash) = {}

\* C18 as amended: for every staged row that has at least one
\* ValidationError other than a duplicate-hash violation, no analytic row
\* with that row's hash exists.
C18_NoAnalyticRowForInvalidHash ==
    \A i \in 1..Len(staging) :
        (\E k \in ErrorsOfRow(staging[i].id) : errors[k].field_name # "hash") =>
            AnalyticWithHash(staging[i].hash) = {}

\* A row with a recorded cell violation is staged and the analytic store
\* holds a promoted row.
C18_Witness ==
    /\ duck_store # <<>>
    /\ \E k \in 1..Len(errors) : errors[k].field_name # "hash"

\* C19: the validator returns the identifiers of the rows with at least one
\* violation, each exactly once however many rules the row violates, and one
\* ValidationError per violated rule.
C19_IdsOncePerRow ==
    last.raised \in {"none", "constraint", "promotion"} =>
        /\ \A a, b \in 1..Len(last.ids) : last.ids[a] = last.ids[b] => a = b
        /\ Range(last.ids) =
                { staging[i].id : i \in { j \in 1..Len(staging) :
                                            Violations(j) # {} } }
        /\ \A i \in 1..Len(staging) :
                Cardinality({ k \in (Len(last.pre_errors) + 1)..Len(errors) :
                                errors[k].row_id = staging[i].id }) =
                    Cardinality(Violations(i))

\* ------------------------------------------------- claims on the reports
\* C11: a report that has no data (promotion or pricing report without a
\* matching row, quality report over an empty store) answers with an outcome
\* that is neither that of a successful report (200) nor that of a server
\* fault (500).
C11_NoDataOutcomeDistinct ==
    (last.kind \in {"quality", "promo", "pricing"} /\ last.nodata
        /\ ~last.fault) => last.code \notin {200, 500}

\* C14: the promotion report includes the analytic rows of supplier S for
\* argument A exactly when lowercase(A) is a substring of lowercase(S), and
\* two arguments that differ only in letter case give the same report.
C14_CaseInsensitiveSupplierMatch ==
    (last.kind = "promo" /\ ~last.fault) =>
        LET r == promotion_report(duck_store, last.supplier, last.min_uplift)
        IN  /\ \A i \in 1..Len(duck_store) :
                    i \in r.matched <=>
                        Contains(Lower(duck_store[i].supplier),
                                 Lower(last.supplier))
            /\ \A other \in SupplierArgs :
                    Lower(other) = Lower(last.supplier) =>
                        promotion_report(duck_store, other, last.min_uplift).uplifts
                            = r.uplifts

\* The stores of the staging table and the rows of one of them.
Stores == { staging[i].store_name : i \in 1..Len(staging) }

RowsOfStore(st) == GroupOf(staging, "store_name", st)

\* C15: the quality report lists a store as unreliable if and only if it has
\* a negative value, or more than 20% nulls, or more than 20% zero
\* quantity/total_sales, or a price volatility above 2x its mean unit price.
C15_UnreliableStoreCriteria ==
    (last.kind = "quality" /\ last.code = 200) =>
        \A st \in Stores :
            st \in last.report.unreliable_stores <=>
                \/ negative_values(staging, RowsOfStore(st)) >= 1
                \/ 5 * null_sales(staging, RowsOfStore(st))
                        > Cardinality(RowsOfStore(st))
                \/ 5 * zero_sales(staging, RowsOfStore(st))
                        > Cardinality(RowsOfStore(st))
                \/ VolatilityAbove(staging, RowsOfStore(st), 2)

\* C16: in every quality report the store health label is "good" whenever
\* the unreliable stores are fewer than 10% of all stores, none included,
\* and "needs_attention" otherwise; likewise for suppliers.
C16_HealthLabels ==
    (last.kind = "quality" /\ last.code = 200) =>
        /\ last.report.overall_store_health =
                IF 10 * Cardinality(last.report.unreliable_stores)
                        < Cardinality(Stores)
                    THEN "good" ELSE "needs_attention"
        /\ last.report.overal_supplier_health =
                IF 10 * Cardinality(last.report.unreliable_suppliers)
                        < Cardinality({ staging[i].supplier :
                                            i \in 1..Len(staging) })
                    THEN "good" ELSE "needs_attention"

\* A store without negative value, null, zero and with a price volatility
\* not above 2x its mean unit price.
CleanStore(st) ==
    /\ negative_values(staging, RowsOfStore(st)) = 0
    /\ null_sales(staging, RowsOfStore(st)) = 0
    /\ zero_sales(staging, RowsOfStore(st)) = 0
    /\ ~VolatilityAbove(staging, RowsOfStore(st), 2)

\* C17: a store whose transactions have no negative value, no null, no zero
\* and a volatility not above 2x the mean never appears in
\* unreliable_stores, whatever the other stores contain.
C17_CleanStoreNotListed ==
    (last.kind = "quality" /\ last.code = 200) =>
        \A st \in Stores :
            CleanStore(st) => st \notin last.report.unreliable_stores

\* A quality report over a clean store next to a store it lists.
C17_Witness ==
    /\ last.kind = "quality"
    /\ last.code = 200
    /\ \E st \in Stores : CleanStore(st)
    /\ last.report.unreliable_stores # {}

\* ------------------------------------------------ claims on the messages
\* The message the claim describes: the row named by its identifier and the
\* field by its name where the report had their positions, the rest as in
\* the report.
Expected(error) ==
    Template(error.kind, error.cell, <<error.row_loc>>, error.fieldName,
             <<error.fieldName>>, Digits(error.first))

\* A text without the marks that delimit its quoted parts.
Unquoted(text) == SelectSeq(text, LAMBDA t : t \notin {Quote, "[", "]"})

\* C20: for every validation error, whatever the row's and the field's
\* position, the message stored and the message returned by the error
\* report name the row by its identifier and the field by its name in place
\* of the positions and leave every other part of the original message,
\* the offending cell value included, unchanged.
C20_MessageNamesRowAndField ==
    /\ last.kind = "stored" =>
            errors[Len(errors)].message = Expected(last.error)
    /\ last.kind = "returned" =>
            \A k \in 1..Len(last.returned) :
                Unquoted(last.returned[k]) = Unquoted(Expected(last.error))

\* ------------------------------------------- claims on the pricing report
\* C21: the pricing report for a supplier argument reports only segments of
\* suppliers whose name contains the argument, letter case apart, and its
\* summary names the requested supplier.
C21_PricingReportOfRequestedSupplier ==
    (last.kind = "pricing" /\ last.code = 200) =>
        /\ \A u \in last.report.suppliers :
                Contains(Lower(u), Lower(last.supplier))
        /\ last.report.summary_supplier = last.supplier

\* ------------------------------------------- claims on the three tables
\* C22: in every reachable state, after failed requests too, every
\* validation error's row_id is the id of a staged row whose hash is the
\* error's hash, and every analytic row has the id and the hash of a staged
\* row.
C22_ErrorsAndAnalyticRowsReferToStagedRows ==
    /\ \A k \in 1..Len(errors) : \E i \in 1..Len(staging) :
            staging[i].id = errors[k].row_id /\ staging[i].hash = errors[k].hash
    /\ \A j \in 1..Len(duck_store) : \E i \in 1..Len(staging) :
            staging[i].id = duck_store[j].id
                /\ staging[i].hash = duck_store[j].hash

\* A failed ingest request with errors recorded and analytic rows present.
C22_Witness ==
    /\ last.raised \in {"persist", "promotion", "constraint"}
    /\ errors # <<>>
    /\ duck_store # <<>>

\* The outcomes of an ingest request of a well-formed file.
IngestOutcomes == {"none", "validation", "persist", "promotion", "constraint"}

\* C23: an ingest request executes the promotion insert only when the
\* validation pass returned at least one row id; when it returned none the
\* request leaves the analytic store unchanged and its response reports
\* rows_ingested = rows_received.
C23_PromotionOnlyWithViolations ==
    last.raised \in IngestOutcomes =>
        /\ last.insert => last.ids # <<>>
        /\ last.ids = <<>> => duck_store = last.pre_store
        /\ (last.raised = "none" /\ last.ids = <<>>) =>
                last.body.rows_ingested = last.body.rows_received

\* A successful ingest of clean rows that left the analytic store empty.
C23_Witness ==
    /\ last.raised = "none"
    /\ last.ids = <<>>
    /\ last.n >= 1
    /\ last.body.rows_ingested = last.n
    /\ duck_store = <<>>

\* C24: once the analytic store holds a row no later request changes it:
\* a later ingest request either skips the promotion or its promotion
\* insert selects a row whose hash the store already holds and the request
\* fails.
C24_StoreFrozenOnceFilled ==
    [][duck_store # <<>> =>
            /\ duck_store' = duck_store
            /\ last'.insert => (last'.met_existing /\ last'.code = 500)]_vars

\* A promotion attempted over a filled store, aborted with the store kept.
C24_Witness ==
    /\ last.insert
    /\ last.raised = "constraint"
    /\ last.pre_store # <<>>
    /\ duck_store = last.pre_store
    /\ Len(staging) > Len(last.pre_staging)

====
